---- MODULE Spec2Model ----
(***************************************************************************)
(* A model of the IKEA Sparsnas packet decoder (src/src/lib.rs).           *)
(*                                                                         *)
(* One decoder is constructed from a serial, then decode, decode_nocrc     *)
(* and power are called on buffers taken from the two frames of the test   *)
(* suite, each as transmitted, with one bit changed, or with one payload   *)
(* bit changed and the checksum recomputed.                                *)
(*                                                                         *)
(* TLC's integers are 32-bit signed, so a u32 is a pair <<hi, lo>> of      *)
(* 16-bit halves (value hi * 65536 + lo); u16 and u8 are plain naturals.   *)
(* Buffers are sequences; At(data, i) reads the source's 0-based data[i].  *)
(***************************************************************************)
EXTENDS Integers, Sequences, FiniteSets

VARIABLES overflow_checks, decoder, last

vars == <<overflow_checks, decoder, last>>

\* ------------------------------------------------------------------ bounds

\* How many serials just below 2^32 are tried (2^32 - 1, 2^32 - 2, ...).
NumHighSerials == 1

\* ------------------------------------------------------- machine integers

\* 2^16: a u32 is held as two 16-bit halves.
W == 256 * 256

At(data, i) == data[i + 1]

RECURSIVE Pow2(_)
Pow2(k) == IF k = 0 THEN 1 ELSE 2 * Pow2(k - 1)

\* a ^ b on naturals below 16, bit by bit.
RECURSIVE XorBits(_, _)
XorBits(a, b) ==
    IF a = 0 THEN b
    ELSE IF b = 0 THEN a
    ELSE (((a % 2) + (b % 2)) % 2) + 2 * XorBits(a \div 2, b \div 2)

XorNibble == [a \in 0 .. 15 |-> [b \in 0 .. 15 |-> XorBits(a, b)]]

\* a ^ b on naturals, four bits at a time.
RECURSIVE BitXor(_, _)
BitXor(a, b) ==
    IF a = 0 THEN b
    ELSE IF b = 0 THEN a
    ELSE XorNibble[a % 16][b % 16] + 16 * BitXor(a \div 16, b \div 16)

\* v ^ (1 << k)
ToggleBit(v, k) ==
    IF (v \div Pow2(k)) % 2 = 1 THEN v - Pow2(k) ELSE v + Pow2(k)

\* A u32 from a natural below 2^31.
U32Of(n) == <<n \div W, n % W>>

U32Zero == <<0, 0>>

\* u32::to_le_bytes
to_le_bytes(x) == <<x[2] % 256, x[2] \div 256, x[1] % 256, x[1] \div 256>>

\* u32::from_be_bytes
u32_from_be_bytes(b) == <<b[1] * 256 + b[2], b[3] * 256 + b[4]>>

\* u16::from_be_bytes
u16_from_be_bytes(b) == b[1] * 256 + b[2]

\* x >= y on pairs <<hi, lo>> with lo < 65536.
Geq(x, y) == x[1] > y[1] \/ (x[1] = y[1] /\ x[2] >= y[2])

\* x - y on pairs, for x >= y.
Sub(x, y) ==
    IF x[2] >= y[2] THEN <<x[1] - y[1], x[2] - y[2]>>
    ELSE <<x[1] - y[1] - 1, x[2] + W - y[2]>>

\* The exact product of two 16-bit numbers, as <<hi, lo>>.
Mul16(a, b) ==
    LET p1 == a * (b \div 256)
        p0 == a * (b % 256)
        x == (p1 % 256) * 256 + p0
    IN <<p1 \div 256 + x \div W, x % W>>

\* The exact product of a u32 and a u16: three 16-bit limbs <<l2, l1, l0>>.
MulWide(x, t) ==
    LET ph == Mul16(x[1], t)
        pl == Mul16(x[2], t)
        mid == ph[2] + pl[1]
    IN <<ph[1] + mid \div W, mid % W, pl[2]>>

\* Bit i (0..31) of the u32 n.
BitOf(n, i) ==
    IF i >= 16 THEN (n[1] \div Pow2(i - 16)) % 2 ELSE (n[2] \div Pow2(i)) % 2

\* u32 / u32 for d # 0: binary long division from bit i down, remainder r,
\* quotient q.
RECURSIVE DivFrom(_, _, _, _, _)
DivFrom(n, d, i, r, q) ==
    IF i < 0 THEN q
    ELSE LET lo2 == 2 * r[2] + BitOf(n, i)
             r2 == <<2 * r[1] + lo2 \div W, lo2 % W>>
             q2lo == 2 * q[2]
             q2 == <<(2 * q[1] + q2lo \div W) % W, q2lo % W>>
         IN IF Geq(r2, d)
            THEN DivFrom(n, d, i - 1, Sub(r2, d), <<q2[1], q2[2] + 1>>)
            ELSE DivFrom(n, d, i - 1, r2, q2)

Div32(n, d) == DivFrom(n, d, 31, U32Zero, U32Zero)

\* x % 1_000_000 for a u32 x, as a natural.
Mod1000000(x) ==
    (((((x[1] * 256) % 1000000) * 256) % 1000000) + x[2]) % 1000000

\* ---------------------------------------------------------------- results

Ok(v) == [tag |-> "Ok", val |-> v]

Err(e) == [tag |-> "Err", err |-> e]

\* A panic of the running thread: the call does not return.
Panic(why) == [tag |-> "Panic", why |-> why]

\* ------------------------------------------------------------ the program

\* 0x8AEF9335, the constant added to the serial, as its two 16-bit halves
\* 0x8AEF and 0x9335.
XorBaseHi == 35567

XorBaseLo == 37685

\* 3686400000u32 = 56250 * 2^16
PowerNumerator == <<56250, 0>>

\* No decoder has been constructed.
NoDecoder == [serial |-> <<0, 0>>, key |-> <<>>]

\* serial + 0x8AEF9335 on u32: the sum's halves before reduction; the high
\* half reaches 2^16 exactly when the addition overflows.
XorBaseSum(serial) ==
    LET lo == serial[2] + XorBaseLo
    IN <<serial[1] + XorBaseHi + (lo \div W), lo % W>>

\* SparsnasDecoder::new. `+` on u32 panics when the build checks overflow
\* (the dev profile) and wraps otherwise (the release profile).
new(checks, serial) ==
    LET sum == XorBaseSum(serial)
        xorbase == to_le_bytes(<<sum[1] % W, sum[2]>>)
    IN IF checks /\ sum[1] >= W
       THEN Panic("attempt to add with overflow")
       ELSE Ok([serial |-> serial,
                key |-> <<71, At(xorbase, 2), At(xorbase, 3),
                          At(xorbase, 0), At(xorbase, 1)>>])

\* unpack with the keystream not advanced to key[4] for the last byte:
\* battery_percentage is xor-ed with key[0].
unpack_battery_key0(self, data) ==
    [status |-> u16_from_be_bytes(<<
         BitXor(At(data, 3), At(self.key, 0)),
         BitXor(At(data, 4), At(self.key, 1))>>),
     serial |-> u32_from_be_bytes(<<
         BitXor(At(data, 5), At(self.key, 2)),
         BitXor(At(data, 6), At(self.key, 3)),
         BitXor(At(data, 7), At(self.key, 4)),
         BitXor(At(data, 8), At(self.key, 0))>>),
     packet_seq |-> u16_from_be_bytes(<<
         BitXor(At(data, 9), At(self.key, 1)),
         BitXor(At(data, 10), At(self.key, 2))>>),
     time_between_pulses |-> u16_from_be_bytes(<<
         BitXor(At(data, 11), At(self.key, 3)),
         BitXor(At(data, 12), At(self.key, 4))>>),
     pulse_count |-> u32_from_be_bytes(<<
         BitXor(At(data, 13), At(self.key, 0)),
         BitXor(At(data, 14), At(self.key, 1)),
         BitXor(At(data, 15), At(self.key, 2)),
         BitXor(At(data, 16), At(self.key, 3))>>),
     battery_percentage |-> BitXor(At(data, 17), At(self.key, 0))]

\* The packet decode_nocrc builds: each field's bytes xor-ed with the key
\* and read big-endian.
unpack(self, data) ==
    [status |-> u16_from_be_bytes(<<
         BitXor(At(data, 3), At(self.key, 0)),
         BitXor(At(data, 4), At(self.key, 1))>>),
     serial |-> u32_from_be_bytes(<<
         BitXor(At(data, 5), At(self.key, 2)),
         BitXor(At(data, 6), At(self.key, 3)),
         BitXor(At(data, 7), At(self.key, 4)),
         BitXor(At(data, 8), At(self.key, 0))>>),
     packet_seq |-> u16_from_be_bytes(<<
         BitXor(At(data, 9), At(self.key, 1)),
         BitXor(At(data, 10), At(self.key, 2))>>),
     time_between_pulses |-> u16_from_be_bytes(<<
         BitXor(At(data, 11), At(self.key, 3)),
         BitXor(At(data, 12), At(self.key, 4))>>),
     pulse_count |-> u32_from_be_bytes(<<
         BitXor(At(data, 13), At(self.key, 0)),
         BitXor(At(data, 14), At(self.key, 1)),
         BitXor(At(data, 15), At(self.key, 2)),
         BitXor(At(data, 16), At(self.key, 3))>>),
     battery_percentage |-> BitXor(At(data, 17), At(self.key, 4))]

\* decode_nocrc with the serial checked before the sequence echo.
decode_nocrc_serial_first(self, data) ==
    IF At(data, 0) # 17 THEN Err("BadLength")
    ELSE LET pkt == unpack(self, data)
         IN IF pkt.serial # U32Of(Mod1000000(self.serial))
            THEN Err("BadSerial")
            ELSE IF (pkt.packet_seq % 128) # At(data, 2)
            THEN Err("BadPacketCount")
            ELSE Ok(pkt)

\* decode_nocrc without the serial check.
decode_nocrc_no_serial_check(self, data) ==
    IF At(data, 0) # 17 THEN Err("BadLength")
    ELSE LET pkt == unpack(self, data)
         IN IF (pkt.packet_seq % 128) # At(data, 2)
            THEN Err("BadPacketCount")
            ELSE Ok(pkt)

\* decode_nocrc with the serial comparison inverted (== for !=).
decode_nocrc_serial_inverted(self, data) ==
    IF At(data, 0) # 17 THEN Err("BadLength")
    ELSE LET pkt == unpack(self, data)
         IN IF (pkt.packet_seq % 128) # At(data, 2)
            THEN Err("BadPacketCount")
            ELSE IF pkt.serial = U32Of(Mod1000000(self.serial))
            THEN Err("BadSerial")
            ELSE Ok(pkt)

\* decode_nocrc with the sequence echo read from data[1].
decode_nocrc_echo_at_1(self, data) ==
    IF At(data, 0) # 17 THEN Err("BadLength")
    ELSE LET pkt == unpack(self, data)
         IN IF (pkt.packet_seq % 128) # At(data, 1)
            THEN Err("BadPacketCount")
            ELSE IF pkt.serial # U32Of(Mod1000000(self.serial))
            THEN Err("BadSerial")
            ELSE Ok(pkt)

\* SparsnasDecoder::decode_nocrc on an 18-byte buffer.
decode_nocrc(self, data) ==
    IF At(data, 0) # 17 THEN Err("BadLength")
    ELSE LET pkt == unpack(self, data)
         IN IF (pkt.packet_seq % 128) # At(data, 2)
            THEN Err("BadPacketCount")
            ELSE IF pkt.serial # U32Of(Mod1000000(self.serial))
            THEN Err("BadSerial")
            ELSE Ok(pkt)

\* mod ikeacrc (lib.rs:6): the checksum engine of the specification's 4.1,
\* as the CRC-16 that gives the checksums of both literal vectors of 8.
\* One bit step of the checksum register: shift left, and xor in 0x8005
\* when the register's top bit differs from the data bit.
CrcBit(reg, bit) ==
    LET shifted == (reg * 2) % W
    IN IF (reg \div 32768) % 2 # bit
       THEN ToggleBit(ToggleBit(ToggleBit(shifted, 15), 2), 0)
       ELSE shifted

\* The register after the bits k, k-1, ..., 0 of byte d.
RECURSIVE CrcByte(_, _, _)
CrcByte(reg, d, k) ==
    IF k < 0 THEN reg
    ELSE CrcByte(CrcBit(reg, (d \div Pow2(k)) % 2), d, k - 1)

\* The checksum's table: entry t is the register that the eight bit steps
\* leave from t << 8 with a zero data byte.
CrcTable == [t \in 0 .. 255 |-> CrcByte(t * 256, 0, 7)]

\* ikeacrc::crc: CRC-16, polynomial 0x8005, register starting at 0xFFFF,
\* most significant bit first, no final xor. reg[i] is the register after
\* the first i bytes: (reg << 8) ^ table[(reg >> 8) ^ byte].
crc(data) ==
    LET reg[i \in 0 .. Len(data)] ==
            IF i = 0 THEN W - 1
            ELSE LET prev == reg[i - 1]
                 IN BitXor((prev % 256) * 256,
                           CrcTable[BitXor(prev \div 256, data[i])])
    IN reg[Len(data)]

\* decode with the payload decoded first and the checksum compared last.
decode_crc_last(self, data) ==
    LET r == decode_nocrc(self, SubSeq(data, 1, 18))
    IN IF r.tag = "Err" THEN r
       ELSE IF u16_from_be_bytes(<<At(data, 18), At(data, 19)>>)
               # crc(SubSeq(data, 1, 18))
       THEN Err("BadCRC")
       ELSE r

\* decode handing decode_nocrc the last 18 bytes instead of the first.
decode_wrong_slice(self, data) ==
    IF u16_from_be_bytes(<<At(data, 18), At(data, 19)>>) # crc(SubSeq(data, 1, 18))
    THEN Err("BadCRC")
    ELSE decode_nocrc(self, SubSeq(data, 3, 20))

\* SparsnasDecoder::decode on a 20-byte buffer.
decode(self, data) ==
    IF u16_from_be_bytes(<<At(data, 18), At(data, 19)>>) # crc(SubSeq(data, 1, 18))
    THEN Err("BadCRC")
    ELSE decode_nocrc(self, SubSeq(data, 1, 18))

\* SparsnasPacket::power. `*` on u32 panics on overflow when the build
\* checks it and wraps otherwise; `/` panics on a zero divisor in every build.
power(checks, pkt, pulses_per_khw) ==
    LET wide == MulWide(pulses_per_khw, pkt.time_between_pulses)
        product == <<wide[2], wide[3]>>
    IN IF checks /\ wide[1] # 0
       THEN Panic("attempt to multiply with overflow")
       ELSE IF product = U32Zero
       THEN Panic("attempt to divide by zero")
       ELSE Ok(Div32(PowerNumerator, product))

\* ------------------------------------------------------------- the inputs

\* tests::kodarn's buffer, with its checksum 0x6e2d.
KodarnFrame ==
    <<17, 73, 36, 7, 14, 162, 118, 23, 14, 207,
      134, 145, 103, 71, 207, 162, 119, 211, 110, 45>>

\* tests::real's buffer, with its checksum 0x6957.
RealFrame ==
    <<17, 224, 43, 7, 14, 162, 29, 40, 167, 128,
      9, 18, 190, 71, 138, 32, 91, 20, 105, 87>>

TestFrames == {KodarnFrame, RealFrame}

\* The serials of the tests, a neighbour of each (real's + 256, kodarn's
\* + 1), the last serial whose sum with 0x8AEF9335 fits in 32 bits and
\* the first whose sum does not, and the serials just below 2^32.
Serials ==
    {U32Of(400565321), U32Of(400547040), U32Of(400547296), U32Of(400565322),
     U32Of(1964010698), U32Of(1964010699)}
    \cup {<<W - 1, W - 1 - k>> : k \in 0 .. NumHighSerials - 1}

\* data with bit b of data[i] changed.
FlipBit(data, i, b) == [data EXCEPT ![i + 1] = ToggleBit(@, b)]

\* 18-byte payloads: those of the test frames, as sent or with one bit
\* changed.
Payloads ==
    LET sent == {SubSeq(f, 1, 18) : f \in TestFrames}
    IN sent \cup {FlipBit(p, i, b) : p \in sent, i \in 0 .. 17, b \in 0 .. 7}

\* A payload followed by its checksum, big-endian.
WithCrc(p) == p \o <<crc(p) \div 256, crc(p) % 256>>

\* 20-byte buffers: every payload with its own checksum, and the test
\* frames with one bit changed anywhere (checksum bytes included).
Frames ==
    {WithCrc(p) : p \in Payloads}
    \cup {FlipBit(f, i, b) : f \in TestFrames, i \in 0 .. 19, b \in 0 .. 7}

\* pulses_per_khw arguments: 0, 1, the usual 1000, 70000, 2^31, 2^32 - 1.
PulsesPerKwh ==
    {U32Of(0), U32Of(1), U32Of(1000), U32Of(70000), <<32768, 0>>,
     <<W - 1, W - 1>>}

\* ------------------------------------------------------ the state machine

\* No call is in progress and no result is held.
Idle == [op |-> "idle"]

IsDecodeOp(call) == call.op \in {"decode", "decode_nocrc"}

Init ==
    /\ overflow_checks \in BOOLEAN
    /\ decoder = NoDecoder
    /\ last = Idle

\* let d = SparsnasDecoder::new(serial);
New(serial) ==
    /\ last = Idle
    /\ decoder = NoDecoder
    /\ LET r == new(overflow_checks, serial)
       IN /\ decoder' = IF r.tag = "Ok" THEN r.val ELSE decoder
          /\ last' = [op |-> "new", serial |-> serial, result |-> r]
    /\ UNCHANGED overflow_checks

\* decode_nocrc keeping its place in the keystream in the decoder: the key
\* is left rotated by one byte after each call.
DecodeNoCrc_rotating_key(data) ==
    /\ last = Idle
    /\ decoder # NoDecoder
    /\ last' = [op |-> "decode_nocrc", data |-> data,
                result |-> decode_nocrc(decoder, data)]
    /\ decoder' = [decoder EXCEPT !.key = Tail(@) \o <<Head(@)>>]
    /\ UNCHANGED overflow_checks

\* d.decode_nocrc(&data)
DecodeNoCrc(data) ==
    /\ last = Idle
    /\ decoder # NoDecoder
    /\ last' = [op |-> "decode_nocrc", data |-> data,
                result |-> decode_nocrc(decoder, data)]
    /\ UNCHANGED <<overflow_checks, decoder>>

\* d.decode(&data)
Decode(data) ==
    /\ last = Idle
    /\ decoder # NoDecoder
    /\ last' = [op |-> "decode", data |-> data,
                result |-> decode(decoder, data)]
    /\ UNCHANGED <<overflow_checks, decoder>>

\* pkt.power(pulses_per_khw) on the packet the last decode returned.
Power(pulses_per_khw) ==
    /\ IsDecodeOp(last)
    /\ last.result.tag = "Ok"
    /\ last' = [op |-> "power", pkt |-> last.result.val,
                pulses_per_khw |-> pulses_per_khw,
                result |-> power(overflow_checks, last.result.val,
                                 pulses_per_khw)]
    /\ UNCHANGED <<overflow_checks, decoder>>

\* The caller is done with the outcome of the last operation.
Done ==
    /\ last # Idle
    /\ last' = Idle
    /\ UNCHANGED <<overflow_checks, decoder>>

Next ==
    \/ \E serial \in Serials : New(serial)
    \/ \E data \in Payloads : DecodeNoCrc(data)
    \/ \E data \in Frames : Decode(data)
    \/ \E pulses_per_khw \in PulsesPerKwh : Power(pulses_per_khw)
    \/ Done

Spec == Init /\ [][Next]_vars

\* ------------------------------------------------------------- the claims

\* The de-obfuscated byte i (3..17) of a payload: data[i] ^ key[(i-3) mod 5].
PlainByte(key, data, i) == BitXor(At(data, i), At(key, (i - 3) % 5))

\* u32::to_be_bytes
to_be_bytes(x) == <<x[1] \div 256, x[1] % 256, x[2] \div 256, x[2] % 256>>

\* Whether the buffer's last two bytes are the checksum of its first 18.
CrcMatches(data) ==
    crc(SubSeq(data, 1, 18)) = At(data, 18) * 256 + At(data, 19)

KodarnPacket ==
    [packet_seq |-> 36, time_between_pulses |-> 61392, pulse_count |-> <<0, 9>>,
     battery_percentage |-> 100, status |-> 16577, serial |-> U32Of(565321)]

RealPacket ==
    [packet_seq |-> 20395, time_between_pulses |-> 1998,
     pulse_count |-> U32Of(4555342), battery_percentage |-> 100,
     status |-> 16577, serial |-> U32Of(547040)]

\* C1: decode_nocrc returns exactly one outcome in a fixed priority order:
\* BadLength if data[0] # 17; otherwise BadPacketCount if the low 7 bits of
\* the decoded packet_seq differ from data[2]; otherwise BadSerial if the
\* decoded serial differs from decoder.serial mod 1_000_000; otherwise Ok.
\* It never returns BadCRC.
C1_NoCrcPriority ==
    last.op = "decode_nocrc" =>
        LET d == last.data
            r == last.result
            lenBad == At(d, 0) # 17
            seqBad == PlainByte(decoder.key, d, 10) % 128 # At(d, 2)
            serBad == <<PlainByte(decoder.key, d, 5), PlainByte(decoder.key, d, 6),
                        PlainByte(decoder.key, d, 7), PlainByte(decoder.key, d, 8)>>
                      # to_be_bytes(U32Of(Mod1000000(decoder.serial)))
        IN /\ r # Err("BadCRC")
           /\ lenBad => r = Err("BadLength")
           /\ (~lenBad /\ seqBad) => r = Err("BadPacketCount")
           /\ (~lenBad /\ ~seqBad /\ serBad) => r = Err("BadSerial")
           /\ (~lenBad /\ ~seqBad /\ ~serBad) => r.tag = "Ok"

\* C1's case: a payload with both a wrong sequence echo and a wrong serial
\* was answered BadPacketCount.
C1_Witness ==
    /\ last.op = "decode_nocrc"
    /\ last.result = Err("BadPacketCount")
    /\ unpack(decoder, last.data).serial # U32Of(Mod1000000(decoder.serial))

\* C2: the record decode_nocrc returns is data[3..18] xor-ed with the
\* cycling keystream (plain byte i = data[i] ^ key[(i-3) mod 5]), read
\* big-endian: status 3..4, serial 5..8, packet_seq 9..10,
\* time_between_pulses 11..12, pulse_count 13..16, battery_percentage 17.
C2_RecordIsXor ==
    (last.op = "decode_nocrc" /\ last.result.tag = "Ok") =>
        LET P(i) == PlainByte(decoder.key, last.data, i)
        IN last.result.val =
            [status |-> P(3) * 256 + P(4),
             serial |-> <<P(5) * 256 + P(6), P(7) * 256 + P(8)>>,
             packet_seq |-> P(9) * 256 + P(10),
             time_between_pulses |-> P(11) * 256 + P(12),
             pulse_count |-> <<P(13) * 256 + P(14), P(15) * 256 + P(16)>>,
             battery_percentage |-> P(17)]

\* C2's case: tests::kodarn's payload was decoded to the record the test
\* expects.
C2_Witness ==
    /\ last.op = "decode_nocrc"
    /\ last.data = SubSeq(KodarnFrame, 1, 18)
    /\ last.result = Ok(KodarnPacket)

\* C3: when the checksum of data[0..18] differs from the big-endian value
\* in data[18..20], decode returns BadCRC whatever the payload is; and
\* changing any bit of bytes 18..19 of a correctly checksummed buffer
\* makes decode return BadCRC.
C3_BadCrcFirst ==
    last.op = "decode" =>
        IF CrcMatches(last.data)
        THEN \A i \in 18 .. 19 : \A b \in 0 .. 7 :
                 decode(decoder, FlipBit(last.data, i, b)) = Err("BadCRC")
        ELSE last.result = Err("BadCRC")

\* C3's case: a buffer with a wrong checksum and data[0] # 17 was answered
\* BadCRC.
C3_Witness ==
    /\ last.op = "decode"
    /\ ~CrcMatches(last.data)
    /\ At(last.data, 0) # 17
    /\ last.result = Err("BadCRC")

\* C4: on a buffer whose bytes 18..19 are the checksum of bytes 0..17,
\* decode returns what decode_nocrc returns on bytes 0..17.
C4_DecodeDelegates ==
    (last.op = "decode" /\ CrcMatches(last.data)) =>
        last.result = decode_nocrc(decoder, SubSeq(last.data, 1, 18))

\* C4's case: tests::real's buffer, checksum included, was decoded to the
\* record the test expects.
C4_Witness ==
    /\ last.op = "decode"
    /\ last.data = RealFrame
    /\ CrcMatches(last.data)
    /\ last.result = Ok(RealPacket)

\* The decoders that new builds, in this build, from the other serials.
OtherDecoders ==
    {new(overflow_checks, s).val :
        s \in {x \in Serials : /\ x # decoder.serial
                               /\ new(overflow_checks, x).tag = "Ok"}}

\* C5 as stated: a payload one decoder accepts is answered BadSerial or
\* BadPacketCount by the decoder of every other serial.
C5_WrongSerialRejects ==
    (last.op = "decode_nocrc" /\ last.result.tag = "Ok") =>
        \A other \in OtherDecoders :
            decode_nocrc(other, last.data)
                \in {Err("BadSerial"), Err("BadPacketCount")}

\* The serial a payload accepted under key k (serial s) de-obfuscates to
\* under key k2: s mod 1_000_000 with its upper three bytes xor-ed by the
\* difference of the two keys' bytes 2..4.
SerialUnder(s, k, k2) ==
    LET t == to_be_bytes(U32Of(Mod1000000(s)))
    IN u32_from_be_bytes(<<
           BitXor(t[1], BitXor(At(k, 2), At(k2, 2))),
           BitXor(t[2], BitXor(At(k, 3), At(k2, 3))),
           BitXor(t[3], BitXor(At(k, 4), At(k2, 4))),
           t[4]>>)

\* C5, amended: on a payload one decoder accepts, the decoder of another
\* serial answers BadPacketCount when the low 7 bits of the two keys'
\* byte 2 differ; otherwise BadSerial unless the payload's serial under
\* its key is its own serial mod 1_000_000, and then Ok.
C5_WrongSerialOutcome ==
    (last.op = "decode_nocrc" /\ last.result.tag = "Ok") =>
        \A other \in OtherDecoders :
            LET r == decode_nocrc(other, last.data)
            IN IF BitXor(At(decoder.key, 2), At(other.key, 2)) % 128 # 0
               THEN r = Err("BadPacketCount")
               ELSE IF SerialUnder(decoder.serial, decoder.key, other.key)
                       # U32Of(Mod1000000(other.serial))
               THEN r = Err("BadSerial")
               ELSE r.tag = "Ok"

\* C5's case: an accepted payload that one other serial's decoder rejects
\* with BadSerial and another's accepts.
C5_Witness ==
    /\ last.op = "decode_nocrc"
    /\ last.result.tag = "Ok"
    /\ \E other \in OtherDecoders :
           decode_nocrc(other, last.data) = Err("BadSerial")
    /\ \E other \in OtherDecoders :
           decode_nocrc(other, last.data).tag = "Ok"

\* C6 as stated: new succeeds for every serial and sets the key to
\* [0x47, b2, b3, b0, b1], b0..b3 the little-endian bytes of
\* (serial + 0x8AEF9335) mod 2^32.
C6_NewAlwaysSucceeds ==
    last.op = "new" =>
        LET sum == XorBaseSum(last.serial)
            hi == sum[1] % W
            lo == sum[2]
        IN /\ last.result.tag = "Ok"
           /\ decoder.serial = last.serial
           /\ decoder.key = <<71, hi % 256, hi \div 256, lo % 256, lo \div 256>>

\* C7 as stated: whenever pulses_per_kwh * time_between_pulses # 0, power
\* returns 3_686_400_000 divided by the exact product (0 once the product
\* exceeds the numerator).
C7_PowerExactProduct ==
    last.op = "power" =>
        LET wide == MulWide(last.pulses_per_khw, last.pkt.time_between_pulses)
        IN wide # <<0, 0, 0>> =>
               last.result =
                   Ok(IF wide[1] # 0 THEN U32Zero
                      ELSE Div32(PowerNumerator, <<wide[2], wide[3]>>))

\* C8: every record decode or decode_nocrc returns carries
\* decoder.serial mod 1_000_000, which is also what the payload's serial
\* bytes de-obfuscate to.
C8_OkSerialMatches ==
    (IsDecodeOp(last) /\ last.result.tag = "Ok") =>
        /\ last.result.val.serial = U32Of(Mod1000000(decoder.serial))
        /\ <<PlainByte(decoder.key, last.data, 5), PlainByte(decoder.key, last.data, 6),
             PlainByte(decoder.key, last.data, 7), PlainByte(decoder.key, last.data, 8)>>
           = to_be_bytes(U32Of(Mod1000000(decoder.serial)))

\* C8's case: decode returned a record for a buffer that is neither test
\* frame (a payload bit changed, the checksum recomputed).
C8_Witness ==
    /\ last.op = "decode"
    /\ last.result.tag = "Ok"
    /\ last.data \notin TestFrames

C10_Byte1Ignored ==
    last.op = "decode_nocrc" =>
        \A v \in 0 .. 255 :
            decode_nocrc(decoder, [last.data EXCEPT ![2] = v]) = last.result

\* C10's case: tests::kodarn's payload with a bit of data[1] changed was
\* decoded to the record the test expects.
C10_Witness ==
    /\ last.op = "decode_nocrc"
    /\ last.data = FlipBit(SubSeq(KodarnFrame, 1, 18), 1, 0)
    /\ last.result = Ok(KodarnPacket)

====
